---- MODULE Spec2Model ----
(***************************************************************************)
(* Crystal lattice geometry and structure factors of crystal.py            *)
(* (Detector, Crystal, get_crystal).                                       *)
(*                                                                         *)
(* Arithmetic.  The floating point numbers of the program are modelled by  *)
(* exact rationals <<numerator, denominator>> in lowest terms.  The two    *)
(* irrational quantities of the program are carried as units:              *)
(*   - reciprocal vectors b1, b2, b3 and G(h,k,l) are stored in units of   *)
(*     2*pi (the program multiplies the rational cross/dot by 2*pi);       *)
(*   - a phase is therefore a rational number of turns x, and exp(-2*pi*i  *)
(*     *x) is a Gaussian integer <<re, im>> whenever 4*x is an integer;    *)
(*   - sqrt(x) of a rational x is carried as the surd <<"sqrt", x>>;       *)
(*     wavelength is in the length unit of the lattice constant and energy *)
(*     in units of 2*pi*HBARC per length unit.                             *)
(***************************************************************************)
EXTENDS Integers, Sequences, FiniteSets, TLC

\* Bounds of the model.
MaxCtor == 2            \* constructor calls (Detector.__init__ runs) per behaviour
MaxIdx == 2             \* Miller indices and lattice indices range over -MaxIdx..MaxIdx
MaxLatticeConst == 2    \* lattice constants in the reference data: 1..MaxLatticeConst

----------------------------------------------------------------------------
\* Exact rational arithmetic standing for the float arithmetic of the program.

AbsInt(n) == IF n < 0 THEN -n ELSE n

RECURSIVE GCD(_, _)
GCD(m, n) == IF n = 0 THEN m ELSE GCD(n, m % n)

\* p/q in lowest terms with a positive denominator (q # 0).
Rat(p, q) ==
    LET s == IF q < 0 THEN -1 ELSE 1
        g == GCD(AbsInt(p), AbsInt(q))
    IN  << (s * p) \div g, (s * q) \div g >>

RInt(n) == << n, 1 >>
RAdd(x, y) == Rat(x[1] * y[2] + y[1] * x[2], x[2] * y[2])
RSub(x, y) == Rat(x[1] * y[2] - y[1] * x[2], x[2] * y[2])
RMul(x, y) == Rat(x[1] * y[1], x[2] * y[2])
RDiv(x, y) == Rat(x[1] * y[2], x[2] * y[1])
RZero == RInt(0)
ROne == RInt(1)

\* numpy arrays of three floats: c * v, v / c, v + w.
VScale(c, v) == << RMul(c, v[1]), RMul(c, v[2]), RMul(c, v[3]) >>
VDiv(v, c) == << RDiv(v[1], c), RDiv(v[2], c), RDiv(v[3], c) >>
VAdd(v, w) == << RAdd(v[1], w[1]), RAdd(v[2], w[2]), RAdd(v[3], w[3]) >>
VInt(x, y, z) == << RInt(x), RInt(y), RInt(z) >>

\* dot and cross of math_helper (numpy's), on 3-vectors.
dot(v, w) == RAdd(RAdd(RMul(v[1], w[1]), RMul(v[2], w[2])), RMul(v[3], w[3]))

cross(v, w) ==
    << RSub(RMul(v[2], w[3]), RMul(v[3], w[2])),
       RSub(RMul(v[3], w[1]), RMul(v[1], w[3])),
       RSub(RMul(v[1], w[2]), RMul(v[2], w[1])) >>

\* Gaussian integers <<re, im>> standing for the complex numbers of sfunc.
CAdd(z, w) == << z[1] + w[1], z[2] + w[2] >>
CMul(z, w) == << z[1] * w[1] - z[2] * w[2], z[1] * w[2] + z[2] * w[1] >>
NormSq(z) == z[1] * z[1] + z[2] * z[2]

\* exp(-2*pi*i*x) for a rational number of turns x with 4*x an integer.
ExpTurns(x) ==
    LET q == ((4 * x[1]) \div x[2]) % 4
    IN  CASE x[2] \in {1, 2, 4} /\ q = 0 -> << 1, 0 >>
          [] x[2] \in {1, 2, 4} /\ q = 1 -> << 0, -1 >>
          [] x[2] \in {1, 2, 4} /\ q = 2 -> << -1, 0 >>
          [] x[2] \in {1, 2, 4} /\ q = 3 -> << 0, 1 >>

\* sqrt(x) and abs(z) = sqrt(|z|^2) as surds; products and quotients of surds.
Sqrt(x) == << "sqrt", x >>
SurdMul(s, t) == Sqrt(RMul(s[2], t[2]))
CAbs(z) == Sqrt(RInt(NormSq(z)))

----------------------------------------------------------------------------
\* Material names: Python strings, as sequences of characters.

Ge == << "G", "e" >>
Si == << "S", "i" >>
NaI == << "N", "a", "I" >>
CsI == << "C", "s", "I" >>

\* Namelist.
cryslist == << Ge, Si, NaI, CsI >>

\* str.lower(), character by character.
lowerChar(c) ==
    CASE c = "G" -> "g"
      [] c = "E" -> "e"
      [] c = "S" -> "s"
      [] c = "N" -> "n"
      [] c = "A" -> "a"
      [] c = "I" -> "i"
      [] c = "C" -> "c"
      [] c = "X" -> "x"
      [] OTHER -> c

\* Mutant: the lookup key is the name as given.
lowerIdentity(s) == s

lower(s) == [i \in DOMAIN s |-> lowerChar(s[i])]

\* The names the operations are called with: the namelist, other casings of
\* its entries, and a name outside the list.
Names ==
    { Ge, Si, NaI, CsI,
      << "g", "e" >>, << "G", "E" >>, << "n", "a", "i" >>, << "X", "e" >> }

\* The reference data det_params.json as json.load returns it: a mapping from
\* lower-case material keys to a mapping of named constants.  Every constant
\* but the lattice constant is an opaque value of the file, named by its key
\* and field.
FileValue(key, field) == << "json", key, field >>

DetInfo(key, lc) ==
    [ iso |-> FileValue(key, "iso"),
      z |-> FileValue(key, "z"),
      n |-> FileValue(key, "n"),
      m |-> FileValue(key, "m"),
      frac |-> FileValue(key, "frac"),
      lattice_const |-> RInt(lc),
      cell_volume |-> FileValue(key, "cell_volume"),
      atomic_radius |-> FileValue(key, "atomic_radius"),
      er_min |-> FileValue(key, "er_min"),
      er_max |-> FileValue(key, "er_max"),
      bg |-> FileValue(key, "bg"),
      bg_un |-> FileValue(key, "bg_un") ]

\* The keys of the file are lower-case.
KeySets ==
    { {}, { << "g", "e" >> }, { << "g", "e" >>, << "n", "a", "i" >> } }

DetFiles ==
    UNION { { [k \in K |-> DetInfo(k, lc[k])] : lc \in [K -> 1..MaxLatticeConst] }
            : K \in KeySets }

----------------------------------------------------------------------------
\* Objects: a mapping from the attribute names assigned so far to values.

None == << "None" >>

\* Mutant: a constant is assigned before the lookup check.
DetectorFirstAttrsEager(det_type, efficiency) ==
    [ det_type |-> det_type, efficiency |-> efficiency, fid_mass |-> ROne ]

\* Detector.__init__, the two assignments before the file is read.
DetectorFirstAttrs(det_type, efficiency) ==
    [ det_type |-> det_type, efficiency |-> efficiency ]

\* Detector.__init__, the assignments of the branch where the key is found.
DetectorAttrs(det_info, fiducial_mass, volume, density) ==
    [ iso |-> det_info.iso,
      z |-> det_info.z,
      n |-> det_info.n,
      m |-> det_info.m,
      frac |-> det_info.frac,
      lattice_const |-> << det_info.lattice_const >>,
      cell_volume |-> << det_info.cell_volume >>,
      r0 |-> << det_info.atomic_radius >>,
      er_min |-> det_info.er_min,
      er_max |-> det_info.er_max,
      bg |-> det_info.bg,
      bg_un |-> det_info.bg_un,
      fid_mass |-> fiducial_mass,
      volume |-> volume,
      density |-> density ]

\* The reciprocal vectors of Crystal.__init__, in units of 2*pi.
B1(a1, a2, a3) == VDiv(cross(a2, a3), dot(a1, cross(a2, a3)))
\* Mutant: the factors of the cross product in the wrong order.
B2Swapped(a1, a2, a3) == VDiv(cross(a1, a3), dot(a1, cross(a2, a3)))
B2(a1, a2, a3) == VDiv(cross(a3, a1), dot(a1, cross(a2, a3)))
B3(a1, a2, a3) == VDiv(cross(a1, a2), dot(a1, cross(a2, a3)))

\* Crystal.__init__ after super().__init__ returned: the lattice attributes.
CrystalAttrs(obj, primitives, v1, v2, v3) ==
    LET a == obj.lattice_const[1]
        a0 == VScale(a, VInt(0, 0, 0))
        a1 == VScale(a, v1)
        a2 == VScale(a, v2)
        a3 == VScale(a, v3)
    IN  [ a |-> a,
          alpha |-> [i \in DOMAIN primitives |-> VScale(a, primitives[i])],
          a0 |-> a0,
          a1 |-> a1,
          a2 |-> a2,
          a3 |-> a3,
          basis |-> << a0, a1, a2, a3 >>,
          b1 |-> B1(a1, a2, a3),
          b2 |-> B2(a1, a2, a3),
          b3 |-> B3(a1, a2, a3) ]

----------------------------------------------------------------------------
\* The methods of Crystal, as functions of the object and the arguments.

r(obj, n1, n2, n3) ==
    VAdd(VAdd(VScale(RInt(n1), obj.a1), VScale(RInt(n2), obj.a2)),
         VScale(RInt(n3), obj.a3))

\* Mutant: b1 in the place of b3.
GRepeated(obj, h, k, l) ==
    VAdd(VAdd(VScale(RInt(h), obj.b1), VScale(RInt(k), obj.b2)),
         VScale(RInt(l), obj.b1))

G(obj, h, k, l) ==
    VAdd(VAdd(VScale(RInt(h), obj.b1), VScale(RInt(k), obj.b2)),
         VScale(RInt(l), obj.b3))

\* 2*pi/sqrt(G.G): with G.G = (2*pi)^2 * q this is sqrt(1/q).  At q = 0 the
\* division is by zero: numpy's float64 yields inf with a warning, a Python
\* float raises ZeroDivisionError.
wavelength(obj, h, k, l) ==
    LET q == dot(G(obj, h, k, l), G(obj, h, k, l))
    IN  IF q = RZero
        THEN { [kind |-> "inf", val |-> None],
               [kind |-> "ZeroDivisionError", val |-> None] }
        ELSE { [kind |-> "value", val |-> Sqrt(RDiv(ROne, q))] }

\* HBARC * sqrt(G.G), in units of 2*pi*HBARC.
energy(obj, h, k, l) == Sqrt(dot(G(obj, h, k, l), G(obj, h, k, l)))

miller(obj, h, k, l) == VInt(h, k, l)

RECURSIVE CSum(_)
CSum(zs) == IF zs = << >> THEN << 0, 0 >> ELSE CAdd(Head(zs), CSum(Tail(zs)))

\* Mutant: the first primitive, alpha[0], in the first factor.
sfuncFirstPrimitive(obj, h, k, l) ==
    CAbs(CMul(CAdd(<< 1, 0 >>, ExpTurns(dot(obj.alpha[1], G(obj, h, k, l)))),
              CSum([i \in DOMAIN obj.basis |->
                      ExpTurns(dot(miller(obj, h, k, l),
                                   VDiv(obj.basis[i], obj.a)))])))

\* abs((1 + exp(-1j*alpha[1].G)) * sum(exp(-2*pi*1j*miller.(avec/a)))).
sfunc(obj, h, k, l) ==
    CAbs(CMul(CAdd(<< 1, 0 >>, ExpTurns(dot(obj.alpha[2], G(obj, h, k, l)))),
              CSum([i \in DOMAIN obj.basis |->
                      ExpTurns(dot(miller(obj, h, k, l),
                                   VDiv(obj.basis[i], obj.a)))])))

\* The arguments get_crystal passes to Crystal.
\* Mutants: the second primitive of the other crystal.
GePrimitivesHalf == << << RZero, RZero, RZero >>,
                       << Rat(1, 2), Rat(1, 2), Rat(1, 2) >> >>
NaIPrimitivesQuarter == << << RZero, RZero, RZero >>,
                           << Rat(1, 4), Rat(1, 4), Rat(1, 4) >> >>
GePrimitives == << << RZero, RZero, RZero >>,
                   << Rat(1, 4), Rat(1, 4), Rat(1, 4) >> >>
NaIPrimitives == << << RZero, RZero, RZero >>,
                    << Rat(1, 2), Rat(1, 2), Rat(1, 2) >> >>
A1 == << RZero, Rat(1, 2), Rat(1, 2) >>
A2 == << Rat(1, 2), RZero, Rat(1, 2) >>
A3 == << Rat(1, 2), Rat(1, 2), RZero >>

----------------------------------------------------------------------------
\* The state.

VARIABLES
    det_params,  \* the content of data/det_params.json
    heap,        \* the objects whose construction has completed, in order
    pc,          \* the position of the call in progress, "idle" between calls
    frame,       \* the call in progress: its arguments, self, the local det_file
    fopen,       \* whether the file handle f is open
    reads,       \* how many times the file has been read (json.load)
    nctor,       \* how many times Detector.__init__ has been entered
    ret          \* the outcome of the last completed call

vars == << det_params, heap, pc, frame, fopen, reads, nctor, ret >>

NoFrame == [fn |-> "none"]
NoRet == [op |-> "none", args |-> << >>, kind |-> "pending", val |-> None,
          printed |-> FALSE]

Range(f) == { f[i] : i \in DOMAIN f }
Idx == (-MaxIdx)..MaxIdx

\* Argument triples of the method calls in Spec.
ProbeArgs == { << 0, 0, 0 >>, << 1, 1, 1 >>, << -1, 2, 0 >> }

IsCrystal(obj) == "b1" \in DOMAIN obj

Init ==
    /\ det_params \in DetFiles
    /\ heap = << >>
    /\ pc = "idle"
    /\ frame = NoFrame
    /\ fopen = FALSE
    /\ reads = 0
    /\ nctor = 0
    /\ ret = NoRet

\* Entering Detector.__init__ (directly or through Crystal.__init__'s super()
\* call): det_type and efficiency are assigned and the file is opened.
EnterDetector(fn, cls, args, det_type, primitives) ==
    /\ nctor < MaxCtor
    /\ frame' = [ fn |-> fn, cls |-> cls, args |-> args, det_type |-> det_type,
                  primitives |-> primitives,
                  self |-> DetectorFirstAttrs(det_type, None),
                  det_file |-> None ]
    /\ fopen' = TRUE
    /\ nctor' = nctor + 1
    /\ pc' = "load"
    /\ ret' = NoRet
    /\ UNCHANGED << det_params, heap, reads >>

\* A call completes: the caller holds its outcome.
Return(op, args, kind, val, printed) ==
    /\ ret' = [op |-> op, args |-> args, kind |-> kind, val |-> val,
               printed |-> printed]
    /\ pc' = "returned"

\* The caller goes on to its next call.
CallerContinues ==
    /\ pc = "returned"
    /\ pc' = "idle"
    /\ ret' = NoRet
    /\ UNCHANGED << det_params, heap, frame, fopen, reads, nctor >>

\* get_crystal(name).
get_crystal(name) ==
    /\ pc = "idle"
    /\ \/ /\ name \notin Range(cryslist)
          /\ Return("get_crystal", << name >>, "None", None, TRUE)
          /\ UNCHANGED << det_params, heap, frame, fopen, reads, nctor >>
       \/ /\ name \in Range(cryslist)
          /\ name = Ge
          /\ EnterDetector("get_crystal", "Crystal", << name >>, name, GePrimitives)
       \/ /\ name \in Range(cryslist)
          /\ name # Ge
          /\ name = NaI
          /\ EnterDetector("get_crystal", "Crystal", << name >>, name, NaIPrimitives)
       \/ /\ name \in Range(cryslist)
          /\ name # Ge
          /\ name # NaI
          /\ Return("get_crystal", << name >>, "None", None, FALSE)
          /\ UNCHANGED << det_params, heap, frame, fopen, reads, nctor >>

\* Crystal(material, primitives, A1, A2, A3) called directly.
Crystal(material, primitives) ==
    /\ pc = "idle"
    /\ EnterDetector("Crystal", "Crystal", << material >>, material, primitives)

\* Detector(det_type) called directly.
Detector(det_type) ==
    /\ pc = "idle"
    /\ EnterDetector("Detector", "Detector", << det_type >>, det_type, << >>)

\* det_file = json.load(f)
DetLoad ==
    /\ pc = "load"
    /\ reads' = reads + 1
    /\ frame' = [frame EXCEPT !.det_file = det_params]
    /\ pc' = "close"
    /\ UNCHANGED << det_params, heap, fopen, nctor, ret >>

\* Mutant: the file is left open.
DetCloseLeak ==
    /\ pc = "close"
    /\ pc' = "check"
    /\ UNCHANGED << det_params, heap, frame, fopen, reads, nctor, ret >>

\* f.close()
DetClose ==
    /\ pc = "close"
    /\ fopen' = FALSE
    /\ pc' = "check"
    /\ UNCHANGED << det_params, heap, frame, reads, nctor, ret >>

\* if det_type.lower() in det_file: the constants are assigned
DetFound ==
    /\ pc = "check"
    /\ lower(frame.det_type) \in DOMAIN frame.det_file
    /\ frame' = [frame EXCEPT !.self =
                    @ @@ DetectorAttrs(frame.det_file[lower(frame.det_type)],
                                       ROne, ROne, ROne)]
    /\ pc' = "found"
    /\ UNCHANGED << det_params, heap, fopen, reads, nctor, ret >>

\* else: raise Exception("No such detector in det_params.json.")
DetRaise ==
    /\ pc = "check"
    /\ lower(frame.det_type) \notin DOMAIN frame.det_file
    /\ Return(frame.fn, frame.args, "Exception", frame.self, FALSE)
    /\ frame' = NoFrame
    /\ UNCHANGED << det_params, heap, fopen, reads, nctor >>

\* Detector(...) returns the object.
DetectorReturn ==
    /\ pc = "found"
    /\ frame.cls = "Detector"
    /\ heap' = Append(heap, frame.self)
    /\ Return(frame.fn, frame.args, "object", Len(heap) + 1, FALSE)
    /\ frame' = NoFrame
    /\ UNCHANGED << det_params, fopen, reads, nctor >>

\* Crystal.__init__ after super().__init__; Crystal(...) returns the object.
CrystalInit ==
    /\ pc = "found"
    /\ frame.cls = "Crystal"
    /\ heap' = Append(heap, frame.self @@
                            CrystalAttrs(frame.self, frame.primitives, A1, A2, A3))
    /\ Return(frame.fn, frame.args, "object", Len(heap) + 1, FALSE)
    /\ frame' = NoFrame
    /\ UNCHANGED << det_params, fopen, reads, nctor >>

\* A method call on the crystal heap[c]; none assigns to anything.
MethodFrame == UNCHANGED << det_params, heap, frame, fopen, reads, nctor >>

Call_r(c, n1, n2, n3) ==
    /\ pc = "idle" /\ c \in DOMAIN heap /\ IsCrystal(heap[c])
    /\ Return("r", << c, n1, n2, n3 >>, "value", r(heap[c], n1, n2, n3), FALSE)
    /\ MethodFrame

Call_G(c, h, k, l) ==
    /\ pc = "idle" /\ c \in DOMAIN heap /\ IsCrystal(heap[c])
    /\ Return("G", << c, h, k, l >>, "value", G(heap[c], h, k, l), FALSE)
    /\ MethodFrame

Call_wavelength(c, h, k, l) ==
    /\ pc = "idle" /\ c \in DOMAIN heap /\ IsCrystal(heap[c])
    /\ \E res \in wavelength(heap[c], h, k, l) :
          Return("wavelength", << c, h, k, l >>, res.kind, res.val, FALSE)
    /\ MethodFrame

Call_energy(c, h, k, l) ==
    /\ pc = "idle" /\ c \in DOMAIN heap /\ IsCrystal(heap[c])
    /\ Return("energy", << c, h, k, l >>, "value", energy(heap[c], h, k, l), FALSE)
    /\ MethodFrame

\* Mutant: the method keeps its arguments on the object.
Call_millerCaching(c, h, k, l) ==
    /\ pc = "idle" /\ c \in DOMAIN heap /\ IsCrystal(heap[c])
    /\ Return("miller", << c, h, k, l >>, "value", miller(heap[c], h, k, l), FALSE)
    /\ heap' = [heap EXCEPT ![c] = [hkl |-> << h, k, l >>] @@ heap[c]]
    /\ UNCHANGED << det_params, frame, fopen, reads, nctor >>

Call_miller(c, h, k, l) ==
    /\ pc = "idle" /\ c \in DOMAIN heap /\ IsCrystal(heap[c])
    /\ Return("miller", << c, h, k, l >>, "value", miller(heap[c], h, k, l), FALSE)
    /\ MethodFrame

Call_sfunc(c, h, k, l) ==
    /\ pc = "idle" /\ c \in DOMAIN heap /\ IsCrystal(heap[c])
    /\ Return("sfunc", << c, h, k, l >>, "value", sfunc(heap[c], h, k, l), FALSE)
    /\ MethodFrame

\* Every operation, with any name; method calls at the probe triples.
Next ==
    \/ \E name \in Names : get_crystal(name)
    \/ \E name \in Names : Crystal(name, GePrimitives)
    \/ \E name \in Names : Detector(name)
    \/ DetLoad
    \/ DetClose
    \/ DetFound
    \/ DetRaise
    \/ DetectorReturn
    \/ CrystalInit
    \/ CallerContinues
    \/ \E c \in DOMAIN heap, t \in ProbeArgs : Call_r(c, t[1], t[2], t[3])
    \/ \E c \in DOMAIN heap, t \in ProbeArgs : Call_G(c, t[1], t[2], t[3])
    \/ \E c \in DOMAIN heap, t \in ProbeArgs : Call_wavelength(c, t[1], t[2], t[3])
    \/ \E c \in DOMAIN heap, t \in ProbeArgs : Call_energy(c, t[1], t[2], t[3])
    \/ \E c \in DOMAIN heap, t \in ProbeArgs : Call_miller(c, t[1], t[2], t[3])
    \/ \E c \in DOMAIN heap, t \in ProbeArgs : Call_sfunc(c, t[1], t[2], t[3])

Spec == Init /\ [][Next]_vars

\* The crystals get_crystal builds, with every index triple of the bounds.
NextMath ==
    \/ \E name \in Names : heap = << >> /\ get_crystal(name)
    \/ DetLoad
    \/ DetClose
    \/ DetFound
    \/ DetRaise
    \/ CrystalInit
    \/ CallerContinues
    \/ \E c \in DOMAIN heap, h \in Idx, k \in Idx, l \in Idx : Call_r(c, h, k, l)
    \/ \E c \in DOMAIN heap, h \in Idx, k \in Idx, l \in Idx : Call_G(c, h, k, l)
    \/ \E c \in DOMAIN heap, h \in Idx, k \in Idx, l \in Idx : Call_wavelength(c, h, k, l)
    \/ \E c \in DOMAIN heap, h \in Idx, k \in Idx, l \in Idx : Call_energy(c, h, k, l)
    \/ \E c \in DOMAIN heap, h \in Idx, k \in Idx, l \in Idx : Call_miller(c, h, k, l)
    \/ \E c \in DOMAIN heap, h \in Idx, k \in Idx, l \in Idx : Call_sfunc(c, h, k, l)

SpecMath == Init /\ [][NextMath]_vars

----------------------------------------------------------------------------
\* Vocabulary of the properties.

Returned(op) == pc = "returned" /\ ret.op = op
Methods == { "r", "G", "wavelength", "energy", "miller", "sfunc" }
Half(x) == RDiv(x, RInt(2))
Quarter(x) == RDiv(x, RInt(4))
Key(name) == [i \in DOMAIN name |-> lowerChar(name[i])]
InData(name) == Key(name) \in DOMAIN det_params
AllEven(h, k, l) == h % 2 = 0 /\ k % 2 = 0 /\ l % 2 = 0
AllOdd(h, k, l) == h % 2 = 1 /\ k % 2 = 1 /\ l % 2 = 1
SurdIsInt(s, n) == s = Sqrt(RInt(n * n))
SurdSquare(s) == s[2]
\* The crystal a completed method call was made on, and its index triple.
Target == heap[ret.args[1]]
Hkl == << ret.args[2], ret.args[3], ret.args[4] >>

\* The FCC lattice of get_crystal scaled by the lattice constant a.
IsFCC(obj, a) ==
    /\ obj.a = a
    /\ obj.a0 = << RZero, RZero, RZero >>
    /\ obj.a1 = << RZero, Half(a), Half(a) >>
    /\ obj.a2 = << Half(a), RZero, Half(a) >>
    /\ obj.a3 = << Half(a), Half(a), RZero >>
    /\ obj.basis = << obj.a0, obj.a1, obj.a2, obj.a3 >>
    /\ Len(obj.alpha) = 2
    /\ obj.alpha[1] = << RZero, RZero, RZero >>

ConstantAttrs ==
    { "iso", "z", "n", "m", "frac", "lattice_const", "cell_volume", "r0",
      "er_min", "er_max", "bg", "bg_un", "fid_mass", "volume", "density" }

\* C2: constructing a Detector or a Crystal raises exactly when the lower-cased
\* name is no key of the reference data; when it raises, and at the lookup
\* check itself, only det_type and efficiency have been assigned; when it
\* succeeds every physical constant is set from the mapping of that material.
C2_Lookup ==
    /\ pc = "check" => DOMAIN frame.self = { "det_type", "efficiency" }
    /\ (pc = "returned" /\ ret.kind \in { "Exception", "object" }) =>
          LET name == ret.args[1] IN
          /\ ret.kind = "Exception" <=> ~InData(name)
          /\ ret.kind = "Exception" =>
                /\ DOMAIN ret.val = { "det_type", "efficiency" }
                /\ ConstantAttrs \cap DOMAIN ret.val = {}
          /\ ret.kind = "object" =>
                LET obj == heap[ret.val]
                    info == det_params[Key(name)]
                IN  /\ ConstantAttrs \subseteq DOMAIN obj
                    /\ obj.iso = info.iso
                    /\ obj.z = info.z
                    /\ obj.n = info.n
                    /\ obj.m = info.m
                    /\ obj.frac = info.frac
                    /\ obj.lattice_const = << info.lattice_const >>
                    /\ obj.cell_volume = << info.cell_volume >>
                    /\ obj.r0 = << info.atomic_radius >>
                    /\ obj.er_min = info.er_min
                    /\ obj.er_max = info.er_max
                    /\ obj.bg = info.bg
                    /\ obj.bg_un = info.bg_un
                    /\ obj.fid_mass = ROne
                    /\ obj.volume = ROne
                    /\ obj.density = ROne

C2_Witness ==
    /\ Returned("Crystal")
    /\ ret.kind = "Exception"
    /\ ret.args[1] = NaI
    /\ InData(Ge)

Delta(i, j) == IF i = j THEN ROne ELSE RZero

\* C3: the reciprocal vectors of every crystal get_crystal builds are the dual
\* basis, ai . bj = 2*pi*delta(i,j) (here in units of 2*pi), they are
\* (1/a)(-1,1,1), (1/a)(1,-1,1), (1/a)(1,1,-1), and r(n1,n2,n3) . G(h,k,l) =
\* 2*pi*(n1*h + n2*k + n3*l): for every r the program returns against G at
\* the probe triples, and for every G it returns against r at the probe triples.
C3_DualBasis ==
    /\ \A c \in DOMAIN heap :
          IsCrystal(heap[c]) =>
             LET obj == heap[c]
                 av == << obj.a1, obj.a2, obj.a3 >>
                 bv == << obj.b1, obj.b2, obj.b3 >>
             IN  /\ \A i \in 1..3, j \in 1..3 : dot(av[i], bv[j]) = Delta(i, j)
                 /\ obj.b1 = VDiv(VInt(-1, 1, 1), obj.a)
                 /\ obj.b2 = VDiv(VInt(1, -1, 1), obj.a)
                 /\ obj.b3 = VDiv(VInt(1, 1, -1), obj.a)
    /\ Returned("r") =>
          \A t \in ProbeArgs :
             dot(ret.val, G(Target, t[1], t[2], t[3]))
                = RInt(Hkl[1] * t[1] + Hkl[2] * t[2] + Hkl[3] * t[3])
    /\ Returned("G") =>
          \A t \in ProbeArgs :
             dot(r(Target, t[1], t[2], t[3]), ret.val)
                = RInt(t[1] * Hkl[1] + t[2] * Hkl[2] + t[3] * Hkl[3])

C3_Witness ==
    /\ Returned("r")
    /\ Hkl = << 1, -1, 2 >>
    /\ Target.det_type = NaI
    /\ Target.a = RInt(2)

\* The structure factor of the reflection G(h,k,l): every site t + alpha of
\* the cell, t in basis and alpha a primitive, with its phase G(h,k,l).(t + alpha).
StructureFactorOfG(obj, h, k, l) ==
    CAbs(CSum([i \in 1..(Len(obj.basis) * Len(obj.alpha)) |->
                 ExpTurns(dot(G(obj, h, k, l),
                              VAdd(obj.basis[((i - 1) \div Len(obj.alpha)) + 1],
                                   obj.alpha[((i - 1) % Len(obj.alpha)) + 1])))]))

\* C4: sfunc(h,k,l) is the structure-factor magnitude of the reflection
\* G(h,k,l): | sum over t in basis and the two primitives alpha of
\* exp(-i * G(h,k,l).(t + alpha)) |.
C4_SfuncOfG ==
    Returned("sfunc") =>
        ret.val = StructureFactorOfG(Target, Hkl[1], Hkl[2], Hkl[3])

SumSquares(h, k, l) ==
    (k + l - h) * (k + l - h) + (h - k + l) * (h - k + l) + (h + k - l) * (h + k - l)

\* C6: the squared length of G(h,k,l) is (2*pi/a)^2 * ((-h+k+l)^2 + (h-k+l)^2
\* + (h+k-l)^2), zero exactly at h = k = l = 0; at every other triple
\* wavelength divides by a nonzero value and wavelength * energy = 2*pi*HBARC;
\* at (0,0,0) energy is 0 and wavelength divides by zero.
C6_Wavelength ==
    /\ Returned("G") =>
          /\ dot(ret.val, ret.val)
                = RDiv(RInt(SumSquares(Hkl[1], Hkl[2], Hkl[3])),
                       RMul(Target.a, Target.a))
          /\ dot(ret.val, ret.val) = RZero <=> Hkl = << 0, 0, 0 >>
    /\ Returned("wavelength") =>
          IF Hkl = << 0, 0, 0 >>
          THEN ret.kind \in { "inf", "ZeroDivisionError" }
          ELSE /\ ret.kind = "value"
               /\ SurdMul(ret.val, energy(Target, Hkl[1], Hkl[2], Hkl[3]))
                     = Sqrt(ROne)
    /\ Returned("energy") =>
          /\ SurdSquare(ret.val) = RZero <=> Hkl = << 0, 0, 0 >>
          /\ Hkl # << 0, 0, 0 >> =>
                \A w \in wavelength(Target, Hkl[1], Hkl[2], Hkl[3]) :
                   w.kind = "value" /\ SurdMul(w.val, ret.val) = Sqrt(ROne)

C6_Witness ==
    /\ Returned("wavelength")
    /\ Hkl = << 1, -1, 0 >>
    /\ ret.kind = "value"
    /\ Target.a = RInt(2)
    /\ ret.val = Sqrt(Rat(1, 2))

\* C8: for germanium sfunc(h,k,l)^2 is 0 when h,k,l are of mixed parity or all
\* even with h+k+l = 2 (mod 4), 64 when all even with h+k+l = 0 (mod 4), and
\* 32 when all odd.
C8_Germanium ==
    (Returned("sfunc") /\ Target.det_type = Ge) =>
        LET h == Hkl[1]
            k == Hkl[2]
            l == Hkl[3]
            sq == SurdSquare(ret.val)
        IN  /\ sq \in { RInt(0), RInt(32), RInt(64) }
            /\ (AllEven(h, k, l) /\ (h + k + l) % 4 = 0) => sq = RInt(64)
            /\ (AllEven(h, k, l) /\ (h + k + l) % 4 = 2) => sq = RInt(0)
            /\ AllOdd(h, k, l) => sq = RInt(32)
            /\ (~AllEven(h, k, l) /\ ~AllOdd(h, k, l)) => sq = RInt(0)

C8_Witness ==
    /\ Returned("sfunc")
    /\ Target.det_type = Ge
    /\ Hkl = << -1, 1, 1 >>
    /\ SurdSquare(ret.val) = RInt(32)

C5_ReadOnce ==
    /\ reads <= 1
    /\ fopen <=> pc \in { "load", "close" }

\* C5, amended: the reference data is read once per constructor call, so the
\* number of reads equals the number of Detector.__init__ runs; the file is
\* closed before the lookup check on the success and on the raise path; no
\* method call reads it, and get_crystal reads nothing when it returns None.
C5_ReadPerConstruction ==
    /\ [](/\ fopen <=> pc \in { "load", "close" }
          /\ reads = IF pc = "load" THEN nctor - 1 ELSE nctor)
    /\ [][/\ (pc' = "returned" /\ ret'.op \in Methods) =>
                reads' = reads /\ fopen' = fopen /\ nctor' = nctor
          /\ (pc' = "returned" /\ ret'.op = "get_crystal" /\ ret'.kind = "None") =>
                reads' = reads /\ fopen' = fopen /\ nctor' = nctor
          /\ reads' # reads => (pc = "load" /\ reads' = reads + 1)]_vars

C5_Witness ==
    /\ Returned("sfunc")
    /\ reads = 2
    /\ nctor = 2
    /\ Len(heap) = 1
    /\ ~fopen

\* C7: no method call changes a field of any object, constructing an object
\* adds one fresh object and leaves every earlier one as it was, so calls on
\* one crystal never change what another (or the same) returns later.
C7_NoSharedState ==
    [][/\ \A i \in DOMAIN heap : i \in DOMAIN heap' /\ heap'[i] = heap[i]
       /\ Len(heap') \in { Len(heap), Len(heap) + 1 }
       /\ (pc' = "returned" /\ ret'.op \in Methods) =>
             heap' = heap /\ det_params' = det_params]_vars

C7_Witness ==
    /\ Returned("miller")
    /\ Len(heap) = 2
    /\ ret.args[1] = 1
    /\ IsCrystal(heap[2])
    /\ heap[1].det_type = Ge
    /\ heap[2].det_type = Ge

\* C10: get_crystal matches names exactly: for every other casing ("ge", "GE",
\* "nai") it returns None without reading the reference data and without
\* raising; Detector and Crystal look the name up lower-cased, so any casing
\* of a key succeeds, and the det_type stored is the name as given.
C10_Casing ==
    /\ []((Returned("get_crystal") /\ ret.args[1] \notin { Ge, NaI }) =>
             ret.kind = "None")
    /\ []((pc = "returned" /\ ret.op \in { "Detector", "Crystal" }
             /\ InData(ret.args[1])) =>
             /\ ret.kind = "object"
             /\ heap[ret.val].det_type = ret.args[1])
    /\ [][(pc' = "returned" /\ ret'.op = "get_crystal"
             /\ ret'.args[1] \notin { Ge, NaI }) =>
             /\ reads' = reads
             /\ nctor' = nctor
             /\ fopen' = fopen
             /\ heap' = heap]_vars

C10_Witness ==
    /\ Returned("Crystal")
    /\ ret.args[1] = << "G", "E" >>
    /\ ret.kind = "object"
    /\ heap[ret.val].det_type = << "G", "E" >>
    /\ Key(ret.args[1]) # ret.args[1]

====
